---- MODULE Spec2Model ----
(***************************************************************************)
(* The waitlist simulation kernel of app.js: the seeded generator          *)
(* mulberry32, the Knuth Poisson sampler and the day loop of simulate,     *)
(* with the metrics it derives; the page's handlers around it (run,        *)
(* applyScenario, runAllComparisons, the export) with the chart handles    *)
(* and the comparison rows they keep; and buildHistogram.                  *)
(*                                                                         *)
(* Three specifications share the variables.  Spec steps through simulate  *)
(* once and once again.  PageSpec takes the page's events one handler at a *)
(* time.  FunctionSpec applies poisson, the wait statistics and            *)
(* buildHistogram to arguments drawn from bounded sets.                    *)
(*                                                                         *)
(* Numbers.  A 32-bit word is a pair <<hi, lo>> of 16-bit halves, so that  *)
(* every intermediate value stays below 2^31.  A JavaScript number that    *)
(* may be fractional (capacityPerDay, rebookDelay) is held in halves: the  *)
(* model value h stands for the number h / 2.  A ratio (utilisation,       *)
(* meanWait, withinT) is held as the fraction num / den.                   *)
(***************************************************************************)
EXTENDS Integers, Sequences, FiniteSets, TLC

\* -------------------------------------------------------------- bounds
\* Horizons simulated: days ranges over 0 .. MaxDays.
MaxDays == 4
\* Clicks handled by the page in PageSpec.
MaxClicks == 3
\* Generator states poisson is applied to in FunctionSpec: seeds 0 .. MaxSeed.
MaxSeed == 24
\* Longest array given to the wait statistics and to buildHistogram.
MaxData == 3
\* Largest wait given to buildHistogram.
MaxWait == 4

\* -------------------------------------------------------------- state
VARIABLES
  params,       \* the parameter record of the invocations
  invocation,   \* 1 for the first call of simulate, 2 for the repeated one
  pc,           \* "call", "day", "serve", "done", "threw"
  a,            \* the generator's state (the closure variable of mulberry32)
  futureAdds, queue, queueSizes, waits, totalSlots, usedSlots,
  d, s, cap,    \* the day, the slot of the day, the day's capacity
  result,       \* the record simulate returns
  dayLog,       \* history: one record per day started
  serviceLog,   \* history: one record per queue removal
  step,         \* history: steps taken by the current invocation
  trace,        \* history: the states the first invocation stepped through
  earlier,      \* history: what the first invocation returned
  queueChart,   \* the cached chart handles: 0 for undefined, else the
  waitChart,    \*   position of the instance in charts
  charts,       \* every Chart instance created, with its canvas
  lastComparisonRows,
  exportDisabled,  \* the disabled property of the export button
  downloads,    \* downloads started by the export
  lastAction,   \* history: the handler of the most recent simulation click
  lastThrew,    \* history: that handler ended with an exception
  clicks,       \* history: the clicks handled
  fn, args,     \* FunctionSpec: the function applied and its arguments
  returned, value  \*           whether it has returned, and what

kernel == <<pc, a, futureAdds, queue, queueSizes, waits, totalSlots, usedSlots,
            d, s, cap, result>>
history == <<dayLog, serviceLog, step, trace, earlier>>
page == <<queueChart, waitChart, charts, lastComparisonRows, exportDisabled,
          downloads, lastAction, lastThrew, clicks>>
applied == <<fn, args, returned, value>>
vars == <<params, invocation, kernel, history, page, applied>>

\* -------------------------------------------------- 32-bit arithmetic
RECURSIVE Power2(_)
Power2(k) == IF k = 0 THEN 1 ELSE 2 * Power2(k - 1)

\* 2^k for 0 <= k <= 16, tabulated
Pow2Table == [k \in 0 .. 16 |-> Power2(k)]
Pow2(k) == Pow2Table[k]

W16 == Power2(16)

RECURSIVE XorBits(_, _, _)
XorBits(x, y, n) ==
  IF n = 0 THEN 0
  ELSE (((x % 2) + (y % 2)) % 2) + 2 * XorBits(x \div 2, y \div 2, n - 1)

RECURSIVE OrBits(_, _, _)
OrBits(x, y, n) ==
  IF n = 0 THEN 0
  ELSE (IF x % 2 = 1 \/ y % 2 = 1 THEN 1 ELSE 0)
         + 2 * OrBits(x \div 2, y \div 2, n - 1)

\* x ^ y on bytes, tabulated
XorTable == [x \in 0 .. 255 |-> [y \in 0 .. 255 |-> XorBits(x, y, 8)]]

\* x ^ y on 16-bit numbers
Xor16(x, y) ==
  (XorTable[x \div 256][y \div 256] * 256) + XorTable[x % 256][y % 256]

\* x ^ y on 32-bit words
Xor32(x, y) == <<Xor16(x[1], y[1]), Xor16(x[2], y[2])>>

\* c | x for a constant c < 2^16
OrLow(c, x) == <<x[1], OrBits(c, x[2], 16)>>

\* x >>> k for 0 < k < 16
Shr32(x, k) ==
  <<x[1] \div Pow2(k),
    ((x[1] % Pow2(k)) * Pow2(16 - k)) + (x[2] \div Pow2(k))>>

\* (x + y) mod 2^32
Add32(x, y) ==
  <<(x[1] + y[1] + ((x[2] + y[2]) \div W16)) % W16, (x[2] + y[2]) % W16>>

\* the full product of two 16-bit numbers, as a word
Mul16(x, y) ==
  LET lowByte == (x % 256) * y
      highByte == (x \div 256) * y
      low == lowByte + ((highByte % 256) * 256)
  IN  <<(low \div W16) + (highByte \div 256), low % W16>>

\* Math.imul(x, y): the low 32 bits of the product
Imul(x, y) ==
  LET ll == Mul16(x[2], y[2])
  IN  <<(ll[1] + Mul16(x[1], y[2])[2] + Mul16(x[2], y[1])[2]) % W16, ll[2]>>

\* ------------------------------------------------------- mulberry32
\* 0x6D2B79F5 as a word
Increment == <<27947, 31221>>

\* a += 0x6D2B79F5.  The code lets a grow as a double; every use of a converts
\* it to 32 bits, so a mod 2^32 is the state that matters (exact while
\* a < 2^53, some millions of draws).
Advance(x) == Add32(x, Increment)

\* The value rand() returns, as the 32-bit numerator u of u / 2^32, from the
\* already advanced state x.
Output(x) ==
  LET t1 == Imul(Xor32(x, Shr32(x, 15)), OrLow(1, x))
      t2 == Xor32(t1, Add32(t1, Imul(Xor32(t1, Shr32(t1, 7)), OrLow(61, t1))))
  IN  Xor32(t2, Shr32(t2, 14))

\* A generator that is seeded by the first invocation only and shared by the
\* later ones.
StaleSeed(seed) == IF invocation = 1 THEN <<0, seed % W16>> ELSE a

\* a = seed >>> 0, for the seeds of the model (0 <= seed < 2^16)
Mulberry32(seed) == <<0, seed % W16>>

\* rand() < rate / 100 for the draw u / 2^32 and a whole percentage rate:
\* u / 2^32 < rate / 100 iff floor(100 u / 2^32) < rate.  (The double rate / 100
\* is within 2^-54 of the ratio and u / 2^32 is exact, so the comparison of
\* doubles agrees with the comparison of ratios.)
Below(u, rate) ==
  ((u[1] * 100) + ((u[2] * 100) \div W16)) \div W16 < rate

\* ---------------------------------------------------------- poisson
\* L = Math.exp(-lambda), in fixed point with 15 fractional bits, for the
\* arrival rates of the model.
ExpNeg(lambda) ==
  CASE lambda = 0 -> 32768
    [] lambda = 1 -> 12054
    [] lambda = 2 -> 4434

\* do { k++; p *= rand(); } while (p > L).  p is held in fixed point with 15
\* fractional bits and multiplied by the upper 16 bits of the draw; the code
\* holds p and L as doubles.
RECURSIVE Knuth(_, _, _, _)
Knuth(L, k, p, x) ==
  LET x2 == Advance(x)
      p2 == (p * Output(x2)[1]) \div W16
  IN  IF p2 > L THEN Knuth(L, k + 1, p2, x2)
      ELSE [k |-> k + 1, a |-> x2]

\* A sampler that draws before it looks at lambda.
PoissonDrawFirst(lambda, x) ==
  IF lambda <= 0 THEN [n |-> 0, a |-> Advance(x), draws |-> 1]
  ELSE LET r == Knuth(ExpNeg(lambda), 0, Pow2(15), x)
       IN  [n |-> r.k - 1, a |-> r.a, draws |-> r.k]

\* poisson(lambda, rand): the count returned, the generator state after it,
\* and the number of draws it consumed.
Poisson(lambda, x) ==
  IF lambda <= 0 THEN [n |-> 0, a |-> x, draws |-> 0]
  ELSE LET r == Knuth(ExpNeg(lambda), 0, Pow2(15), x)
       IN  [n |-> r.k - 1, a |-> r.a, draws |-> r.k]

\* ------------------------------------------------- JavaScript values
Num(n) == [kind |-> "number", v |-> n]
Undefined == [kind |-> "undefined", v |-> 0]
NaN == [kind |-> "NaN", v |-> 0]
Null == [kind |-> "null", num |-> 0, den |-> 1]
Ratio(n, m) == [kind |-> "number", num |-> n, den |-> m]

\* arr[i] of a JavaScript array (indices from 0): undefined out of range
Get(arr, i) == IF 0 <= i /\ i < Len(arr) THEN Num(arr[i + 1]) ELSE Undefined

\* n + x for a number n
Plus(n, x) == IF x.kind = "number" THEN Num(n + x.v) ELSE NaN

\* A loop that runs its body once more: i <= x.
IterationsInclusive(x) == IF x.kind = "number" /\ x.v >= 0 THEN x.v + 1 ELSE 0

\* how often "for (let i = 0; i < x; i++)" runs its body
Iterations(x) == IF x.kind = "number" /\ x.v > 0 THEN x.v ELSE 0

\* Math.floor of a number held in halves
Floor(h) == h \div 2

Max(x, y) == IF x >= y THEN x ELSE y
Min(x, y) == IF x <= y THEN x ELSE y

Repeat(v, n) == [i \in 1 .. n |-> v]

\* --------------------------------------------------------- parameters
ArrivalRates == {0, 1, 2}
\* capacityPerDay, in halves: -1, 0, 1.5, 2
Capacities == {-2, 0, 3, 4}
DnaRates == {0, 50, 100}
RebookRates == {0, 100}
\* rebookDelay, in halves: -3, -1, 0, 0.5, 1, 2
RebookDelays == {-6, -2, 0, 1, 2, 4}
Horizons == 0 .. MaxDays
Warmups == {0, 2}
Seeds == {1, 5}

SimulationParameters ==
  [arrivalRate : ArrivalRates, capacityPerDay : Capacities, dnaRate : DnaRates,
   rebookRate : RebookRates, rebookDelay : RebookDelays, days : Horizons,
   warmup : Warmups, seed : Seeds]

NoResult == [returned |-> FALSE]

\* One more step of the current invocation: the first invocation's states are
\* kept for comparison with the second's.
Record ==
  /\ step' = step + 1
  /\ trace' = IF invocation = 1 THEN Append(trace, kernel') ELSE trace

\* lastComparisonRows = null
NoRows == [kind |-> "null", rows |-> <<>>]

\* The script's own state as lines 102-103 declare it, before any handler has
\* run; the export button is as the document made it.
ScriptLoaded(disabled) ==
  /\ queueChart = 0 /\ waitChart = 0 /\ charts = <<>>
  /\ lastComparisonRows = NoRows
  /\ exportDisabled = disabled
  /\ downloads = 0
  /\ lastAction = "none" /\ lastThrew = FALSE /\ clicks = 0

\* No function is being applied on its own.
NothingApplied == fn = "none" /\ args = <<>> /\ returned = FALSE /\ value = <<>>

Init ==
  /\ params \in SimulationParameters
  /\ invocation = 1
  /\ pc = "call"
  /\ a = <<0, 0>>
  /\ futureAdds = <<>> /\ queue = <<>> /\ queueSizes = <<>> /\ waits = <<>>
  /\ totalSlots = 0 /\ usedSlots = 0
  /\ d = 0 /\ s = 0 /\ cap = 0
  /\ result = NoResult
  /\ dayLog = <<>> /\ serviceLog = <<>>
  /\ step = 0 /\ trace = <<>>
  /\ earlier = [pc |-> "call", result |-> NoResult, params |-> params]
  /\ ScriptLoaded(TRUE)
  /\ NothingApplied

\* new Array(days + rebookDelay + 2): the length asked for, in halves
ArrayLength(days, rebookDelay) == (2 * days) + rebookDelay + 4

\* new Array(n) throws a RangeError unless n is a whole number >= 0
ValidLength(h) == h % 2 = 0 /\ h >= 0

\* simulate, lines 24-37: the generator is built from the seed, the arrays and
\* counters are created; the allocation of futureAdds may throw.
Call ==
  /\ pc = "call"
  /\ a' = Mulberry32(params.seed)
  /\ LET len == ArrayLength(params.days, params.rebookDelay)
     IN  IF ValidLength(len)
         THEN /\ futureAdds' = Repeat(0, len \div 2)
              /\ pc' = "day"
         ELSE /\ futureAdds' = <<>>
              /\ pc' = "threw"
  /\ queue' = <<>> /\ queueSizes' = <<>> /\ waits' = <<>>
  /\ totalSlots' = 0 /\ usedSlots' = 0
  /\ d' = 0 /\ s' = 0 /\ cap' = 0
  /\ result' = NoResult
  /\ dayLog' = <<>> /\ serviceLog' = <<>>
  /\ UNCHANGED <<params, invocation, earlier>>
  /\ UNCHANGED <<page, applied>>
  /\ Record

\* The capacity made positive by its absolute value instead of the clamp.
CapAbs(capacityPerDay) ==
  IF Floor(capacityPerDay) < 0 THEN 0 - Floor(capacityPerDay)
  ELSE Floor(capacityPerDay)

\* No capacity offered during warm-up.
CapAfterWarmup(capacityPerDay) ==
  IF d < params.warmup THEN 0 ELSE Max(0, Floor(capacityPerDay))

\* The capacity without its clamp at 0.
CapUnclamped(capacityPerDay) == Floor(capacityPerDay)

\* cap = Math.max(0, Math.floor(capacityPerDay))
Cap(capacityPerDay) == Max(0, Floor(capacityPerDay))

\* Entries that carry the tag of the day before.
PushStale(q, day, n) == q \o Repeat(Max(0, day - 1), n)

\* for (let i = 0; i < arrivals; i++) queue.push(d)
Push(q, day, n) == q \o Repeat(day, n)

\* One day's arrivals and capacity, lines 40-44.
DayArrivals ==
  /\ pc = "day" /\ d < params.days
  /\ LET drawn == Poisson(params.arrivalRate, a)
         future == Get(futureAdds, d)
         arrivals == Plus(drawn.n, future)
         pushed == Iterations(arrivals)
         c == Cap(params.capacityPerDay)
     IN  /\ a' = drawn.a
         /\ queue' = Push(queue, d, pushed)
         /\ cap' = c
         /\ totalSlots' = totalSlots + c
         /\ dayLog' = Append(dayLog,
              [day |-> d, draw |-> drawn.n, draws |-> drawn.draws,
               future |-> future, arrivals |-> arrivals, pushed |-> pushed,
               before |-> Len(queue), cap |-> c])
  /\ s' = 0
  /\ pc' = "serve"
  /\ UNCHANGED <<params, invocation, futureAdds, queueSizes, waits, usedSlots,
                 d, result, serviceLog, earlier>>
  /\ UNCHANGED <<page, applied>>
  /\ Record

\* queue.pop() in place of queue.shift(): the newest entry is served.
Pop(q) == [removed |-> q[Len(q)], rest |-> SubSeq(q, 1, Len(q) - 1)]

\* queue.shift(): the entry removed and the queue left
Shift(q) == [removed |-> Head(q), rest |-> Tail(q)]

\* A return day that is one day late.
LateReturn(day, rebookDelay) == day + Max(0, Floor(rebookDelay)) + 1

\* returnDay = d + Math.max(0, Math.floor(rebookDelay))
ReturnDay(day, rebookDelay) == day + Max(0, Floor(rebookDelay))

\* A wait measured from day 0 instead of the entry day.
WaitFromStart(day, enteredDay) == day

\* wait = d - enteredDay
Wait(day, enteredDay) == day - enteredDay

\* A warm-up test that also excludes the day d = warmup.
ObservedStrictly(day, warmup) == day > warmup

\* if (d >= warmup) waits.push(wait)
Observed(day, warmup) == day >= warmup

\* A service loop that leaves its last slot unused.
ServingOneLess(slot, c, q) == slot + 1 < c /\ q # <<>>

\* for (let s = 0; s < cap; s++) { if (queue.length === 0) break; ...
Serving(slot, c, q) == slot < c /\ q # <<>>

\* A schedule that grows to hold a return day beyond its end.
ScheduleGrowing(adds, returnDay) ==
  IF returnDay < Len(adds) THEN [adds EXCEPT ![returnDay + 1] = @ + 1]
  ELSE adds \o [i \in 1 .. returnDay - Len(adds) |-> 0] \o <<1>>

\* if (returnDay < futureAdds.length) futureAdds[returnDay] += 1
Schedule(adds, returnDay) ==
  IF returnDay < Len(adds) THEN [adds EXCEPT ![returnDay + 1] = @ + 1]
  ELSE adds

\* One pass of the service loop's body, lines 46-62.
Serve ==
  /\ pc = "serve" /\ Serving(s, cap, queue)
  /\ usedSlots' = usedSlots + 1
  /\ LET sh == Shift(queue)
         enteredDay == sh.removed
         a1 == Advance(a)
         isDNA == Below(Output(a1), params.dnaRate)
         a2 == Advance(a1)
         willRebook == isDNA /\ Below(Output(a2), params.rebookRate)
         returnDay == ReturnDay(d, params.rebookDelay)
         stored == willRebook /\ returnDay < Len(futureAdds)
         wait == Wait(d, enteredDay)
         seen == ~isDNA /\ Observed(d, params.warmup)
     IN  /\ queue' = sh.rest
         /\ a' = IF isDNA THEN a2 ELSE a1
         /\ futureAdds' = IF willRebook THEN Schedule(futureAdds, returnDay)
                          ELSE futureAdds
         /\ waits' = IF seen THEN Append(waits, wait) ELSE waits
         /\ serviceLog' = Append(serviceLog,
              [day |-> d, enteredDay |-> enteredDay,
               outcome |-> IF ~isDNA THEN "attended"
                           ELSE IF willRebook THEN "rebooked" ELSE "lost",
               returnDay |-> returnDay, stored |-> stored, seen |-> seen])
  /\ s' = s + 1
  /\ UNCHANGED <<params, invocation, pc, queueSizes, totalSlots, d, cap, result,
                 dayLog, earlier>>
  /\ UNCHANGED <<page, applied>>
  /\ Record

\* A trajectory that is recorded after warm-up only.
PushSizeAfterWarmup(sizes, q) ==
  IF d >= params.warmup THEN Append(sizes, Len(q)) ELSE sizes

\* queueSizes.push(queue.length)
PushSize(sizes, q) == Append(sizes, Len(q))

\* The service loop is left (s reached cap, or the break on an empty queue)
\* and the day's queue length is recorded, line 65.
EndDay ==
  /\ pc = "serve" /\ ~Serving(s, cap, queue)
  /\ queueSizes' = PushSize(queueSizes, queue)
  /\ d' = d + 1
  /\ pc' = "day"
  /\ UNCHANGED <<params, invocation, a, futureAdds, queue, waits, totalSlots,
                 usedSlots, s, cap, result, dayLog, serviceLog, earlier>>
  /\ UNCHANGED <<page, applied>>
  /\ Record

\* ------------------------------------------------------------ metrics
RECURSIVE Insert(_, _)
Insert(w, sorted) ==
  IF sorted = <<>> \/ w <= Head(sorted) THEN <<w>> \o sorted
  ELSE <<Head(sorted)>> \o Insert(w, Tail(sorted))

\* The waits left in the order they were recorded.
Unsorted(ws) == ws

\* waits.sort((a, b) => a - b)
RECURSIVE Sort(_)
Sort(ws) == IF ws = <<>> THEN <<>> ELSE Insert(Head(ws), Sort(Tail(ws)))

RECURSIVE Sum(_)
Sum(ws) == IF ws = <<>> THEN 0 ELSE Head(ws) + Sum(Tail(ws))

\* utilisation = totalSlots > 0 ? usedSlots / totalSlots : 0
Utilisation(used, total) == IF total > 0 THEN Ratio(used, total) ELSE Ratio(0, 1)

\* The rank counted from the top of the sorted waits.
IndexFromTop(n, q) == ((n - 1) * (100 - q)) \div 100

\* idx = Math.floor((n - 1) * q), q given in hundredths.  (n - 1) * 0.5 is
\* exact; (n - 1) * 0.9 as a double is never below and less than 0.1 above
\* 9 (n - 1) / 10, so its floor is the floor of the ratio.
Index(n, q) == ((n - 1) * q) \div 100

\* quantile(q) over the sorted waits
Quantile(sorted, q) ==
  IF Len(sorted) = 0 THEN Null
  ELSE Ratio(sorted[Index(Len(sorted), q) + 1], 1)

\* The mean without its guard: 0 / 0 is NaN.
MeanUnguarded(sorted) ==
  IF Len(sorted) = 0 THEN [kind |-> "NaN", num |-> 0, den |-> 0]
  ELSE Ratio(Sum(sorted), Len(sorted))

\* mean = n ? waits.reduce(...) / n : null
Mean(sorted) == IF Len(sorted) = 0 THEN Null ELSE Ratio(Sum(sorted), Len(sorted))

\* A threshold that leaves out the waits equal to it.
WithinStrictly(sorted, t) ==
  IF Len(sorted) = 0 THEN Null
  ELSE Ratio(Cardinality({i \in 1 .. Len(sorted) : sorted[i] < t}), Len(sorted))

\* within(t) = n ? waits.filter(w => w <= t).length / n : null
Within(sorted, t) ==
  IF Len(sorted) = 0 THEN Null
  ELSE Ratio(Cardinality({i \in 1 .. Len(sorted) : sorted[i] <= t}), Len(sorted))

Metrics(sorted, used, total) ==
  [utilisation |-> Utilisation(used, total),
   meanWait |-> Mean(sorted),
   medianWait |-> Quantile(sorted, 50),
   p90Wait |-> Quantile(sorted, 90),
   within14 |-> Within(sorted, 14),
   within28 |-> Within(sorted, 28),
   within42 |-> Within(sorted, 42),
   nSeen |-> Len(sorted)]

\* The day loop has ended: lines 68-98.
Finish ==
  /\ pc = "day" /\ d >= params.days
  /\ waits' = Sort(waits)
  /\ result' = [returned |-> TRUE, queueSizes |-> queueSizes, waits |-> waits',
                metrics |-> Metrics(waits', usedSlots, totalSlots)]
  /\ pc' = "done"
  /\ UNCHANGED <<params, invocation, a, futureAdds, queue, queueSizes,
                 totalSlots, usedSlots, d, s, cap, dayLog, serviceLog, earlier>>
  /\ UNCHANGED <<page, applied>>
  /\ Record

\* The parameter records of a second invocation, read from the inputs again:
\* the same record, the record with another warm-up, or, for a capacity that is
\* not positive, the record with another capacity that is not positive.
Scenarios(p) ==
  {p} \cup {[p EXCEPT !.warmup = w] : w \in Warmups}
      \cup {[p EXCEPT !.capacityPerDay = c] :
              c \in {x \in Capacities : x <= 0 /\ p.capacityPerDay <= 0}}

\* The caller invokes simulate once more: run() on another click, or
\* runAllComparisons, which simulates the baseline record twice.
\* The locals of the call that ended are gone; what it returned is kept.
Again ==
  /\ pc \in {"done", "threw"} /\ invocation = 1
  /\ invocation' = 2
  /\ earlier' = [pc |-> pc, result |-> result, params |-> params]
  /\ params' \in Scenarios(params)
  /\ pc' = "call"
  /\ step' = 0
  /\ a' = <<0, 0>>
  /\ futureAdds' = <<>> /\ queue' = <<>> /\ queueSizes' = <<>> /\ waits' = <<>>
  /\ totalSlots' = 0 /\ usedSlots' = 0
  /\ d' = 0 /\ s' = 0 /\ cap' = 0
  /\ result' = NoResult
  /\ dayLog' = <<>> /\ serviceLog' = <<>>
  /\ UNCHANGED <<trace, page, applied>>

Next == Call \/ DayArrivals \/ Serve \/ EndDay \/ Finish \/ Again
Spec == Init /\ [][Next]_vars

\* ================================================================ page
\* simulate is not being stepped through: its variables are at rest.
KernelAtRest ==
  /\ invocation = 0
  /\ pc = "rest"
  /\ a = <<0, 0>>
  /\ futureAdds = <<>> /\ queue = <<>> /\ queueSizes = <<>> /\ waits = <<>>
  /\ totalSlots = 0 /\ usedSlots = 0
  /\ d = 0 /\ s = 0 /\ cap = 0
  /\ result = NoResult
  /\ dayLog = <<>> /\ serviceLog = <<>>
  /\ step = 0 /\ trace = <<>>

\* What getParamsFromInputs can read from the fields: parseInt makes
\* capacityPerDay, rebookDelay and days whole numbers (held in halves where
\* the kernel holds them so).
PageInputs ==
  [arrivalRate : {1}, capacityPerDay : {0, 4}, dnaRate : {0, 5},
   rebookRate : {100}, rebookDelay : {-6, 2}, days : {0, 3},
   warmup : {0}, seed : {1}]

\* slotsPerWTE as getCostAssumptions reads it, floored and clamped (line 271)
WteSlots == {0, 2}

\* simulate(p) ends at line 31 with a RangeError instead of returning
Throws(p) == ~ValidLength(ArrayLength(p.days, p.rebookDelay))

\* buildScenariosFromCurrentInputs, lines 267-279
BuildScenarios(base, wteSlots) ==
  <<[name |-> "Baseline", params |-> base],
    [name |-> "+2 slots/day",
     params |-> [base EXCEPT !.capacityPerDay = @ + (2 * 2)]],
    [name |-> "Reduce DNA",
     params |-> [base EXCEPT !.dnaRate = Max(0, @ - 5)]],
    [name |-> "+1 WTE",
     params |-> [base EXCEPT !.capacityPerDay = @ + (2 * wteSlots)]]>>

\* new Chart(ctx, ...): a live instance on a canvas
NewChart(canvas) == [canvas |-> canvas, destroyed |-> FALSE]

\* The old instance is left alive.
DestroyNothing(all, handle) == all

\* if (handle) handle.destroy()
Destroy(all, handle) ==
  IF handle = 0 THEN all ELSE [all EXCEPT ![handle].destroyed = TRUE]

\* renderCharts(out), lines 159-193: each handle's old instance is destroyed
\* and a new one created on its canvas.
RenderCharts ==
  LET c1 == Append(Destroy(charts, queueChart), NewChart("queueChart"))
      c2 == Append(Destroy(c1, waitChart), NewChart("waitChart"))
  IN  /\ queueChart' = Len(c1)
      /\ waitChart' = Len(c2)
      /\ charts' = c2

\* run(), lines 250-264, with the fields holding p: simulate may throw at
\* line 253, and then nothing after it is executed.
RunWith(p) ==
  /\ lastAction' = "run"
  /\ lastThrew' = Throws(p)
  /\ IF Throws(p)
     THEN UNCHANGED <<queueChart, waitChart, charts, lastComparisonRows,
                      exportDisabled>>
     ELSE /\ RenderCharts
          /\ lastComparisonRows' = NoRows
          /\ exportDisabled' = TRUE
  /\ clicks' = clicks + 1
  /\ UNCHANGED <<downloads, invocation, kernel, history, applied>>

PageInit ==
  /\ params \in PageInputs
  /\ KernelAtRest
  /\ earlier = [pc |-> "rest", result |-> NoResult, params |-> params]
  /\ \E disabled \in BOOLEAN : ScriptLoaded(disabled)
  /\ NothingApplied

\* The user types into the fields (the input handler of lines 448-454 only
\* renders the assumptions panel).
Edit ==
  /\ pc = "rest" /\ clicks < MaxClicks
  /\ params' \in PageInputs \ {params}
  /\ UNCHANGED <<invocation, kernel, history, page, applied>>

\* A click on runBtn (line 429); the script's own first run (line 458) is the
\* same handler.
Run ==
  /\ pc = "rest" /\ clicks < MaxClicks
  /\ RunWith(params)
  /\ UNCHANGED params

\* applyScenario(scn), lines 281-287, for a scenario button (lines 431-441):
\* the scenario's values are written into the fields, then run() reads them.
ApplyScenario ==
  /\ pc = "rest" /\ clicks < MaxClicks
  /\ \E w \in WteSlots : \E k \in 1 .. 4 :
       LET scn == BuildScenarios(params, w)[k]
       IN  /\ params' = scn.params
           /\ RunWith(scn.params)

\* runAllComparisons, lines 341-371: simulate runs for the baseline and for
\* every scenario before the rows are stored and the button enabled.
RunAllComparisons ==
  /\ pc = "rest" /\ clicks < MaxClicks
  /\ \E w \in WteSlots :
       LET scenarios == BuildScenarios(params, w)
           threw == \E k \in 1 .. 4 : Throws(scenarios[k].params)
       IN  /\ lastThrew' = threw
           /\ IF threw
              THEN UNCHANGED <<lastComparisonRows, exportDisabled>>
              ELSE /\ lastComparisonRows' = [kind |-> "array", rows |-> scenarios]
                   /\ exportDisabled' = FALSE
  /\ lastAction' = "runAllComparisons"
  /\ clicks' = clicks + 1
  /\ UNCHANGED <<params, queueChart, waitChart, charts, downloads, invocation,
                 kernel, history, applied>>

\* if (!lastComparisonRows || !lastComparisonRows.length) return;
Exports(rows) == rows.kind = "array" /\ Len(rows.rows) > 0

\* exportLastComparisonToCSV, lines 420-426, on a click that reaches it (a
\* disabled button dispatches no click).
ExportLastComparisonToCSV ==
  /\ pc = "rest" /\ clicks < MaxClicks
  /\ ~exportDisabled
  /\ downloads' = IF Exports(lastComparisonRows) THEN downloads + 1 ELSE downloads
  /\ clicks' = clicks + 1
  /\ UNCHANGED <<params, queueChart, waitChart, charts, lastComparisonRows,
                 exportDisabled, lastAction, lastThrew, invocation, kernel,
                 history, applied>>

PageNext ==
  Edit \/ Run \/ ApplyScenario \/ RunAllComparisons \/ ExportLastComparisonToCSV
PageSpec == PageInit /\ [][PageNext]_vars

\* =========================================================== functions
\* arrays of at most MaxData elements of a set
Arrays(S) == UNION {[1 .. n -> S] : n \in 0 .. MaxData}

\* The statistics of lines 70-96 over an array of recorded waits.
Statistics(ws) ==
  LET sorted == Sort(ws)
  IN  [waits |-> sorted, metrics |-> Metrics(sorted, 0, 0)]

RECURSIVE MaxOf(_)
MaxOf(data) ==
  IF Len(data) = 1 THEN data[1] ELSE Max(Head(data), MaxOf(Tail(data)))

\* counts[idx] += 1: beyond the end of the array this stores NaN at idx and the
\* array grows over holes
Tally(counts, idx) ==
  IF idx < Len(counts) THEN [counts EXCEPT ![idx + 1] = Plus(1, @)]
  ELSE counts \o [i \in 1 .. idx - Len(counts) |-> Undefined] \o <<NaN>>

\* for (const x of data) { clamped; idx; counts[idx] += 1 }
RECURSIVE Binned(_, _, _, _)
Binned(counts, data, binSize, maxEdge) ==
  IF data = <<>> THEN counts
  ELSE Binned(Tally(counts, Min(Head(data), maxEdge) \div binSize),
              Tail(data), binSize, maxEdge)

\* buildHistogram(data, binSize, maxBins), lines 142-157; a label is the pair
\* of numbers its string shows
BuildHistogram(data, binSize, maxBins) ==
  IF Len(data) = 0 THEN [labels |-> <<>>, counts |-> <<>>]
  ELSE LET maxEdge == Min(MaxOf(data), binSize * maxBins)
           bins == (maxEdge \div binSize) + 1
           counts == Binned(Repeat(Num(0), bins), data, binSize, maxEdge)
       IN  [labels |-> [i \in 1 .. Len(counts) |->
                          <<(i - 1) * binSize, ((i - 1) * binSize) + (binSize - 1)>>],
            counts |-> counts]

\* the arguments the functions are applied to
Lambdas == {-1, 0, 1, 2}
GeneratorStates == {Mulberry32(seed) : seed \in 0 .. MaxSeed}
WaitValues == {0, 14, 15, 28, 42, 43}
BinSizes == {1, 3}
BinLimits == {1, 2}

FunctionInit ==
  /\ params \in PageInputs /\ ~Throws(params) /\ params.days = 0
  /\ params.capacityPerDay = 0 /\ params.dnaRate = 0
  /\ KernelAtRest
  /\ earlier = [pc |-> "rest", result |-> NoResult, params |-> params]
  /\ ScriptLoaded(TRUE)
  /\ returned = FALSE /\ value = <<>>
  /\ \/ fn = "poisson" /\ args \in Lambdas \X GeneratorStates
     \/ fn = "statistics" /\ args \in {<<ws>> : ws \in Arrays(WaitValues)}
     \/ fn = "buildHistogram"
          /\ args \in Arrays(0 .. MaxWait) \X BinSizes \X BinLimits

ApplyPoisson ==
  /\ fn = "poisson" /\ ~returned
  /\ value' = Poisson(args[1], args[2])
  /\ returned' = TRUE
  /\ UNCHANGED <<params, invocation, kernel, history, page, fn, args>>

ApplyStatistics ==
  /\ fn = "statistics" /\ ~returned
  /\ value' = Statistics(args[1])
  /\ returned' = TRUE
  /\ UNCHANGED <<params, invocation, kernel, history, page, fn, args>>

ApplyBuildHistogram ==
  /\ fn = "buildHistogram" /\ ~returned
  /\ value' = BuildHistogram(args[1], args[2], args[3])
  /\ returned' = TRUE
  /\ UNCHANGED <<params, invocation, kernel, history, page, fn, args>>

FunctionNext == ApplyPoisson \/ ApplyStatistics \/ ApplyBuildHistogram
FunctionSpec == FunctionInit /\ [][FunctionNext]_vars

\* ============================================================== claims
\* the number of queue removals on a day
ServedOn(day) ==
  Cardinality({k \in 1 .. Len(serviceLog) : serviceLog[k].day = day})

\* the number of entries appended on a day out of futureAdds
Reentered(day) ==
  LET e == dayLog[day + 1]
  IN  IF e.arrivals.kind = "number" THEN e.future.v ELSE 0

\* the number of rebookings made with a given return day
RebookedFor(day) ==
  Cardinality({k \in 1 .. Len(serviceLog) :
     serviceLog[k].outcome = "rebooked" /\ serviceLog[k].returnDay = day})

Terminated == pc \in {"done", "threw"}

BeforeService(e) == e.before + e.pushed

\* arrivals(d) as the claim gives it: the Poisson draw plus futureAdds[d], an
\* absent futureAdds[d] counted as no scheduled return
ClaimedArrivals(e) ==
  e.draw + (IF e.future.kind = "number" THEN e.future.v ELSE 0)

\* C2: conservation per day: for every recorded day d, queueSizes[d] =
\* queueSizes[d-1] + arrivals(d) - servedThisDay(d), with queueSizes[-1] = 0 and
\* arrivals(d) the Poisson draw plus futureAdds[d], and servedThisDay(d) <=
\* min(cap, queue length before service on day d).
C2_Conservation ==
  \A i \in 1 .. Len(queueSizes) :
    LET e == dayLog[i]
        prev == IF i = 1 THEN 0 ELSE queueSizes[i - 1]
        served == ServedOn(i - 1)
    IN  /\ queueSizes[i] = prev + ClaimedArrivals(e) - served
        /\ served <= Min(e.cap, BeforeService(e))

\* C3: FIFO order: the queue's entry days never decrease from front to back,
\* and every service removes the front entry, so that nobody left waiting
\* entered on a strictly earlier day than the person served.
C3_Fifo ==
  /\ [](\A i \in 1 .. Len(queue) - 1 : queue[i] <= queue[i + 1])
  /\ [][Len(serviceLog') = Len(serviceLog) + 1 =>
          LET served == serviceLog'[Len(serviceLog')].enteredDay
          IN  /\ served = Head(queue)
              /\ queue' = Tail(queue)
              /\ \A i \in 1 .. Len(queue') : served <= queue'[i]]_vars

\* C3 witness: a service has taken the front of a queue that held entries of
\* different days.
C3_Witness ==
  /\ Len(serviceLog) > 0
  /\ Len(queue) > 0
  /\ serviceLog[Len(serviceLog)].enteredDay < queue[Len(queue)]
  /\ serviceLog[Len(serviceLog)].day = d /\ pc = "serve"

\* waits has been sorted: the invocation has returned
WaitsSorted == pc = "done"

\* the services whose wait was recorded, in service order
SeenServices == SelectSeq(serviceLog, LAMBDA e : e.seen)

\* C4: every recorded wait is the service day minus the entry day of the entry
\* that service removed, so 0 <= w <= d <= days - 1 for each of them; waits holds
\* exactly these values (in service order until it is sorted at the end).
C4_WaitIsServiceMinusEntry ==
  LET seen == SeenServices
      expected == [i \in 1 .. Len(seen) |-> seen[i].day - seen[i].enteredDay]
  IN  /\ waits = IF WaitsSorted THEN Sort(expected) ELSE expected
      /\ \A i \in 1 .. Len(seen) :
           /\ 0 <= expected[i]
           /\ expected[i] <= seen[i].day
           /\ seen[i].day <= params.days - 1

\* C4 witness: a wait greater than 0 has been recorded.
C4_Witness ==
  /\ pc = "done"
  /\ \E i \in 1 .. Len(waits) : waits[i] > 0
  /\ \E i \in 1 .. Len(serviceLog) : serviceLog[i].seen /\ serviceLog[i].enteredDay > 0

\* the attended services on days >= warmup
AttendedAfterWarmup ==
  {k \in 1 .. Len(serviceLog) :
     serviceLog[k].outcome = "attended" /\ serviceLog[k].day >= params.warmup}

\* C5: warm-up exclusion: a wait is recorded exactly for the attended services
\* whose service day d satisfies d >= warmup, whatever the entry day; nSeen is
\* the number of these services.
C5_WarmupExclusion ==
  /\ \A k \in 1 .. Len(serviceLog) :
       serviceLog[k].seen <=> k \in AttendedAfterWarmup
  /\ Len(waits) = Cardinality(AttendedAfterWarmup)
  /\ pc = "done" => result.metrics.nSeen = Cardinality(AttendedAfterWarmup)

\* C5 witness: the run has returned with an attended service inside warm-up
\* left out, and one served after warm-up that entered during warm-up kept.
C5_Witness ==
  /\ pc = "done" /\ params.warmup > 0
  /\ \E k \in 1 .. Len(serviceLog) :
       serviceLog[k].outcome = "attended" /\ serviceLog[k].day < params.warmup
  /\ \E k \in 1 .. Len(serviceLog) :
       /\ serviceLog[k].seen
       /\ serviceLog[k].enteredDay < params.warmup
       /\ serviceLog[k].day = params.warmup

\* C6: utilisation bound: usedSlots <= totalSlots in every state, so the
\* returned utilisation lies in [0, 1]; it is 0 when totalSlots is 0.
C6_UtilisationBound ==
  /\ 0 <= usedSlots /\ usedSlots <= totalSlots
  /\ pc = "done" =>
       LET u == result.metrics.utilisation
       IN  /\ u.kind = "number" /\ u.den > 0
           /\ 0 <= u.num /\ u.num <= u.den
           /\ totalSlots = 0 => u.num = 0
           /\ totalSlots > 0 => (u.num = usedSlots /\ u.den = totalSlots)

\* C6 witness: a run has returned with some, but not all, of its slots used.
C6_Witness ==
  /\ pc = "done"
  /\ 0 < usedSlots /\ usedSlots < totalSlots
  /\ result.metrics.utilisation = Ratio(usedSlots, totalSlots)

\* C7: quantile monotonicity: whenever waits is non-empty, the returned
\* medianWait is at most the returned p90Wait.
C7_QuantileMonotone ==
  (pc = "done" /\ Len(waits) > 0) =>
     /\ result.metrics.medianWait.kind = "number"
     /\ result.metrics.p90Wait.kind = "number"
     /\ result.metrics.medianWait.num <= result.metrics.p90Wait.num

\* C7 witness: a run has returned a median strictly below its 90th percentile,
\* from waits that were not recorded in ascending order.
C7_Witness ==
  /\ pc = "done" /\ Len(waits) > 2
  /\ result.metrics.medianWait.num < result.metrics.p90Wait.num
  /\ LET seen == SeenServices
     IN  \E i \in 1 .. Len(seen) - 1 :
           seen[i].day - seen[i].enteredDay > seen[i + 1].day - seen[i + 1].enteredDay

\* C8: simulate never throws for finite numeric parameters (fractional or
\* negative rebookDelay, negative capacity, zero horizon included); it always
\* returns a result record.
C8_NeverThrows == pc # "threw"

\* C9: every rebooking made on day d is appended to the queue on day
\* returnDay = d + max(0, floor(rebookDelay)) whenever returnDay < days, for
\* every rebookDelay, 0 and negative values included: once the run has returned,
\* each simulated day has taken in as many returning people as were rebooked
\* for it.
C9_RebookReentry ==
  pc = "done" =>
    \A r \in 0 .. params.days - 1 : Reentered(r) = RebookedFor(r)

\* the whole number of days of a rebookDelay that is a positive integer
WholeDelay == params.rebookDelay \div 2

RoundTripCase ==
  /\ params.dnaRate = 100 /\ params.rebookRate = 100
  /\ params.rebookDelay % 2 = 0 /\ params.rebookDelay > 0

\* C10: rebooking round-trip: with dnaRate = 100, rebookRate = 100 and a
\* positive integer rebookDelay D no wait is ever recorded, and for every day d
\* with d + D < days the entries appended on day d + D out of futureAdds are as
\* many as the people served on day d.
C10_RoundTrip ==
  RoundTripCase =>
    /\ waits = <<>>
    /\ \A k \in 1 .. Len(serviceLog) : serviceLog[k].outcome = "rebooked"
    /\ \A day \in 0 .. params.days - 1 :
         (day + WholeDelay < params.days /\ Len(dayLog) > day + WholeDelay
            /\ (day < d \/ Terminated))
           => Reentered(day + WholeDelay) = ServedOn(day)

\* C10 witness: people served on an early day have come back D days later and
\* the run has returned.
C10_Witness ==
  /\ RoundTripCase /\ pc = "done"
  /\ \E day \in 0 .. params.days - 1 :
       /\ day + WholeDelay < params.days
       /\ ServedOn(day) > 1
       /\ Reentered(day + WholeDelay) = ServedOn(day)

\* ------------------------------------------------------------ C11 .. C20
\* the wait statistics of a returned record
WaitMetrics(m) ==
  {m.meanWait, m.medianWait, m.p90Wait, m.within14, m.within28, m.within42}

\* C11: zero demand: with arrivalRate = 0, a positive capacity and warmup 0 the
\* queue is empty on every day (queueSizes all zero), waits is empty, and the
\* returned utilisation is 0, nSeen is 0 and the six wait statistics are null.
C11_ZeroDemand ==
  (params.arrivalRate = 0 /\ params.capacityPerDay >= 2 /\ params.warmup = 0) =>
     /\ queue = <<>> /\ waits = <<>> /\ serviceLog = <<>>
     /\ \A i \in 1 .. Len(queueSizes) : queueSizes[i] = 0
     /\ pc = "done" =>
          /\ result.queueSizes = [i \in 1 .. params.days |-> 0]
          /\ result.waits = <<>>
          /\ result.metrics.utilisation.num = 0
          /\ result.metrics.nSeen = 0
          /\ \A x \in WaitMetrics(result.metrics) : x = Null

\* C11 witness: a run without demand has returned after several days on which
\* capacity was offered.
C11_Witness ==
  /\ params.arrivalRate = 0 /\ params.capacityPerDay >= 2 /\ params.warmup = 0
  /\ pc = "done" /\ params.days > 1 /\ totalSlots > 1
  /\ result.metrics.utilisation = Ratio(0, totalSlots)

\* the two parameter records differ in nothing, or in this field only
SameBut(p, q, field) ==
  \A f \in (DOMAIN p) \ {field} : p[f] = q[f]

\* C12: zero capacity: when capacityPerDay is zero or negative no service ever
\* happens, queueSizes never decreases, waits is empty, futureAdds is never
\* incremented and utilisation is 0; a negative capacity returns exactly what
\* capacity 0 returns.
C12_ZeroCapacity ==
  (params.capacityPerDay <= 0 /\ earlier.params.capacityPerDay <= 0) =>
     /\ serviceLog = <<>> /\ waits = <<>> /\ usedSlots = 0
     /\ \A i \in 1 .. Len(futureAdds) : futureAdds[i] = 0
     /\ \A i \in 1 .. Len(queueSizes) - 1 : queueSizes[i] <= queueSizes[i + 1]
     /\ pc = "done" => result.metrics.utilisation.num = 0
     /\ (invocation = 2 /\ Terminated /\ step > 0
           /\ SameBut(params, earlier.params, "capacityPerDay")) =>
          /\ pc = earlier.pc
          /\ result = earlier.result

\* C12 witness: capacity 0 and capacity -1 have both been run on a queue that
\* grew.
C12_Witness ==
  /\ invocation = 2 /\ pc = "done"
  /\ params.capacityPerDay # earlier.params.capacityPerDay
  /\ params.capacityPerDay <= 0 /\ earlier.params.capacityPerDay <= 0
  /\ Len(queueSizes) > 1
  /\ queueSizes[1] < queueSizes[Len(queueSizes)]

\* C13: undefined-statistic sentinel: each of meanWait, medianWait, p90Wait,
\* within14, within28, within42 is null if and only if waits is empty, and is a
\* defined number (never NaN) otherwise.
C13_Sentinel ==
  pc = "done" =>
    \A x \in WaitMetrics(result.metrics) :
      /\ x.kind \in {"null", "number"}
      /\ x.kind = "null" <=> Len(result.waits) = 0
      /\ x.kind = "number" => x.den > 0
      /\ x.kind = "null" => x = Null

\* C13 witness: a run has served people and returned without any recorded wait.
C13_Witness ==
  /\ pc = "done" /\ usedSlots > 1 /\ Len(result.waits) = 0
  /\ result.metrics.meanWait = Null /\ result.metrics.within28 = Null

\* what of a kernel state does not belong to the wait statistics
Trajectory(k) == <<k[1], k[2], k[3], k[4], k[5], k[7], k[8], k[9], k[10], k[11]>>

\* C14: warm-up does not affect the trajectory: two runs whose parameters
\* differ only in warmup step through the same queue, queueSizes, usedSlots and
\* totalSlots, and return the same queueSizes and utilisation.
C14_WarmupFreeTrajectory ==
  (invocation = 2 /\ step > 0 /\ SameBut(params, earlier.params, "warmup")) =>
     /\ step <= Len(trace)
     /\ Trajectory(kernel) = Trajectory(trace[step])
     /\ pc = "done" =>
          /\ earlier.pc = "done"
          /\ result.queueSizes = earlier.result.queueSizes
          /\ result.metrics.utilisation = earlier.result.metrics.utilisation

\* C14 witness: two runs with different warm-ups have returned different waits
\* after the same trajectory.
C14_Witness ==
  /\ invocation = 2 /\ pc = "done"
  /\ params.warmup # earlier.params.warmup
  /\ result.waits # earlier.result.waits
  /\ result.queueSizes = earlier.result.queueSizes
  /\ usedSlots > 1

\* the queue length at the end of a recorded day, from the day's arrivals and
\* services
EndOfDay(i) == BeforeService(dayLog[i]) - ServedOn(i - 1)

InLoop == pc \in {"day", "serve"}

\* C15: queueSizes gets one element per simulated day, whatever the warm-up:
\* after k completed days it has length k, at return it has length days, and
\* queueSizes[d] is the queue length at the end of day d.
C15_OneSizePerDay ==
  /\ InLoop => Len(queueSizes) = d
  /\ pc = "done" =>
       /\ Len(queueSizes) = params.days
       /\ result.queueSizes = queueSizes
  /\ (InLoop \/ pc = "done") =>
       \A i \in 1 .. Len(queueSizes) : queueSizes[i] = EndOfDay(i)

\* C15 witness: a run with warm-up has returned a trajectory of several days
\* that ends with people waiting.
C15_Witness ==
  /\ pc = "done" /\ params.warmup > 0 /\ params.days > 2
  /\ Len(queueSizes) = params.days
  /\ queueSizes[1] > 0 /\ queueSizes[1] # queueSizes[Len(queueSizes)]
  /\ Len(serviceLog) > 1

\* C16: termination: the day loop ends after exactly days iterations, a day's
\* service loop removes at most cap entries, and simulate ends by returning its
\* result record.
C16_Terminates ==
  /\ InLoop =>
       /\ d <= params.days /\ Len(dayLog) <= params.days
       /\ s <= cap
       /\ \A day \in 0 .. params.days - 1 : ServedOn(day) <= cap
  /\ pc = "done" => (d = params.days /\ Len(dayLog) = params.days)
  /\ Terminated => result.returned

\* C17: futureAdds is sized so that every return day computed during a run and
\* every day index read at the arrivals step is a valid index of it.
C17_EveryIndexValid ==
  /\ \A i \in 1 .. Len(dayLog) : dayLog[i].future.kind = "number"
  /\ \A k \in 1 .. Len(serviceLog) :
       /\ 0 <= serviceLog[k].returnDay
       /\ serviceLog[k].returnDay < Len(futureAdds)

\* the rebookings whose return day had a slot in the array as it was allocated
Scheduled ==
  {k \in 1 .. Len(serviceLog) :
     /\ serviceLog[k].outcome = "rebooked"
     /\ serviceLog[k].returnDay < params.days + (params.rebookDelay \div 2) + 2}

\* C18: silent drop: a rebooking whose return day is not below the length of
\* futureAdds changes nothing: futureAdds keeps the length it was allocated
\* with, its slots count exactly the rebookings that had a slot, the run goes on
\* without an error, and nobody re-enters for a dropped rebooking.
C18_SilentDrop ==
  (InLoop \/ pc = "done") =>
     /\ Len(futureAdds) = params.days + (params.rebookDelay \div 2) + 2
     /\ Sum(futureAdds) = Cardinality(Scheduled)
     /\ \A k \in 1 .. Len(serviceLog) : serviceLog[k].stored <=> k \in Scheduled
     /\ \A i \in 1 .. Len(dayLog) :
          Reentered(i - 1) <= Cardinality({k \in Scheduled :
                                 serviceLog[k].returnDay = i - 1})

\* C18 witness: a rebooking has been dropped and the run has returned.
C18_Witness ==
  /\ pc = "done"
  /\ \E k \in 1 .. Len(serviceLog) :
       serviceLog[k].outcome = "rebooked" /\ k \notin Scheduled

\* C19: work conservation: on every recorded day the services are exactly
\* min(cap, queue length after arrivals), so a day that ends with people waiting
\* has used all its cap slots.
C19_WorkConserving ==
  \A i \in 1 .. Len(queueSizes) :
    /\ ServedOn(i - 1) = Min(dayLog[i].cap, BeforeService(dayLog[i]))
    /\ queueSizes[i] > 0 => ServedOn(i - 1) = dayLog[i].cap

\* C19 witness: one day has ended with people waiting after all its slots were
\* used, another with an empty queue and a slot left over.
C19_Witness ==
  /\ \E i \in 1 .. Len(queueSizes) :
       queueSizes[i] > 0 /\ dayLog[i].cap > 1 /\ ServedOn(i - 1) = dayLog[i].cap
  /\ \E i \in 1 .. Len(queueSizes) :
       queueSizes[i] = 0 /\ ServedOn(i - 1) > 0 /\ ServedOn(i - 1) < dayLog[i].cap

\* cap as the claims give it: max(0, floor(capacityPerDay))
ClampedCapacity ==
  IF params.capacityPerDay < 0 THEN 0 ELSE params.capacityPerDay \div 2

\* C20: slot accounting: usedSlots counts every queue removal, attended or not,
\* inside warm-up or not, and totalSlots grows by cap on every day; at return
\* usedSlots is the number of removals of the run and totalSlots is days * cap.
C20_SlotAccounting ==
  /\ usedSlots = Len(serviceLog)
  /\ totalSlots = Len(dayLog) * ClampedCapacity
  /\ pc = "done" =>
       /\ totalSlots = params.days * ClampedCapacity
       /\ usedSlots = Cardinality({k \in 1 .. Len(serviceLog) :
                         serviceLog[k].day < params.days})

\* C20 witness: a run has returned after removals of every outcome, some of
\* them inside warm-up.
C20_Witness ==
  /\ pc = "done" /\ params.warmup > 0
  /\ \E k \in 1 .. Len(serviceLog) :
       serviceLog[k].outcome = "attended" /\ serviceLog[k].day < params.warmup
  /\ \E k \in 1 .. Len(serviceLog) : serviceLog[k].outcome = "rebooked"
  /\ \E k \in 1 .. Len(serviceLog) : serviceLog[k].outcome = "attended" /\ serviceLog[k].seen
  /\ usedSlots < totalSlots
\* ------------------------------------------------------------ C21 .. C28
\* C21: nearest-rank quantile: a returned non-empty waits of size n is sorted
\* ascending, medianWait is its element at index floor((n-1)/2) and p90Wait
\* its element at index floor(9(n-1)/10), both indexes within [0, n-1], so
\* both are values that occur in waits.
C21_NearestRank ==
  (pc = "done" /\ Len(result.waits) > 0) =>
     LET ws == result.waits
         n == Len(ws)
         median == (n - 1) \div 2
         p90 == (9 * (n - 1)) \div 10
     IN  /\ \A i \in 1 .. n - 1 : ws[i] <= ws[i + 1]
         /\ 0 <= median /\ median <= n - 1
         /\ 0 <= p90 /\ p90 <= n - 1
         /\ result.metrics.medianWait = Ratio(ws[median + 1], 1)
         /\ result.metrics.p90Wait = Ratio(ws[p90 + 1], 1)
         /\ \E k \in 1 .. Len(serviceLog) :
              /\ serviceLog[k].seen
              /\ serviceLog[k].day - serviceLog[k].enteredDay
                   = result.metrics.medianWait.num
         /\ \E k \in 1 .. Len(serviceLog) :
              /\ serviceLog[k].seen
              /\ serviceLog[k].day - serviceLog[k].enteredDay
                   = result.metrics.p90Wait.num

\* C21 witness: a run has returned waits whose median, 90th percentile and
\* largest value are three different elements.
C21_Witness ==
  /\ pc = "done" /\ Len(result.waits) > 3
  /\ result.metrics.medianWait.num < result.metrics.p90Wait.num
  /\ result.metrics.p90Wait.num < result.waits[Len(result.waits)]

\* the number of elements of an array that are at most t
AtMost(ws, t) == Cardinality({i \in 1 .. Len(ws) : ws[i] <= t})

\* C22: within-threshold metrics: for a non-empty array of waits, withinT(t) is
\* the number of waits <= t divided by nSeen, so each of within14, within28
\* and within42 lies in [0, 1] and within14 <= within28 <= within42.
C22_WithinThresholds ==
  (fn = "statistics" /\ returned /\ Len(args[1]) > 0) =>
     LET ws == args[1]
         m == value.metrics
     IN  /\ m.nSeen = Len(ws)
         /\ m.within14 = Ratio(AtMost(ws, 14), m.nSeen)
         /\ m.within28 = Ratio(AtMost(ws, 28), m.nSeen)
         /\ m.within42 = Ratio(AtMost(ws, 42), m.nSeen)
         /\ \A w \in {m.within14, m.within28, m.within42} :
              0 <= w.num /\ w.num <= w.den /\ w.den > 0
         /\ m.within14.num * m.within28.den <= m.within28.num * m.within14.den
         /\ m.within28.num * m.within42.den <= m.within42.num * m.within28.den

\* C22 witness: the three fractions of an array are different, with waits
\* equal to a threshold and one beyond the last.
C22_Witness ==
  /\ fn = "statistics" /\ returned /\ Len(args[1]) > 2
  /\ \E i \in 1 .. Len(args[1]) : args[1][i] = 14
  /\ value.metrics.within14.num > 0
  /\ value.metrics.within14.num < value.metrics.within28.num
  /\ value.metrics.within28.num < value.metrics.within42.num

\* the generator state after a number of draws
RECURSIVE AfterDraws(_, _)
AfterDraws(x, n) == IF n = 0 THEN x ELSE AfterDraws(Advance(x), n - 1)

\* the states the generator passes through from x to y, at most MaxSeed draws
DrawsBetween(x, y) == {n \in 0 .. MaxSeed : AfterDraws(x, n) = y}

\* C23: poisson(lambda, rand) returns 0 and leaves the generator where it was
\* when lambda <= 0; otherwise it consumes at least one draw and returns the
\* number of draws consumed minus 1, an integer >= 0.
C23_PoissonDraws ==
  (fn = "poisson" /\ returned) =>
     LET lambda == args[1]
         consumed == DrawsBetween(args[2], value.a)
     IN  /\ lambda <= 0 => (value.n = 0 /\ value.a = args[2] /\ consumed = {0})
         /\ lambda > 0 =>
              /\ consumed # {}
              /\ \A n \in consumed : n >= 1 /\ value.n = n - 1
              /\ value.n >= 0

\* C23 witness: poisson has returned more than 1 for a positive lambda, after
\* one draw more than it returned.
C23_Witness ==
  /\ fn = "poisson" /\ returned
  /\ args[1] > 0 /\ value.n > 1 /\ AfterDraws(args[2], value.n + 1) = value.a

\* the entries that carry a day's tag: those waiting and those removed
TaggedWith(day) ==
  Cardinality({j \in 1 .. Len(queue) : queue[j] = day})
    + Cardinality({k \in 1 .. Len(serviceLog) : serviceLog[k].enteredDay = day})

\* C24: re-entry tagging: the entries appended on day d, new referrals and
\* people returning through futureAdds[d] alike, carry the tag d and stand
\* behind every entry of an earlier day; no entry carries another tag, so the
\* wait recorded for a returning person counts from the day of re-entry.
C24_TaggedWithEntryDay ==
  (InLoop \/ pc = "done") =>
     /\ \A j \in 1 .. Len(queue) - 1 : queue[j] <= queue[j + 1]
     /\ \A i \in 1 .. Len(dayLog) :
          /\ TaggedWith(i - 1) = dayLog[i].pushed
          /\ dayLog[i].arrivals.kind = "number" =>
               dayLog[i].pushed = dayLog[i].draw + Reentered(i - 1)
     /\ \A j \in 1 .. Len(queue) : 0 <= queue[j] /\ queue[j] < Len(dayLog)
     /\ \A k \in 1 .. Len(serviceLog) :
          0 <= serviceLog[k].enteredDay /\ serviceLog[k].enteredDay <= serviceLog[k].day

\* C24 witness: on a day without new referrals people came back through
\* futureAdds, and one of them was seen with a wait counted from that day.
C24_Witness ==
  \E i \in 2 .. Len(dayLog) :
    /\ dayLog[i].draw = 0 /\ Reentered(i - 1) > 0
    /\ \E k \in 1 .. Len(serviceLog) :
         /\ serviceLog[k].enteredDay = i - 1
         /\ serviceLog[k].seen
         /\ Len(waits) > 0

\* the number of rebookings made so far
Rebookings ==
  Cardinality({k \in 1 .. Len(serviceLog) : serviceLog[k].outcome = "rebooked"})

\* the entries appended so far, and those of them that came out of futureAdds
Appended == Sum([i \in 1 .. Len(dayLog) |-> dayLog[i].pushed])
Returned == Sum([i \in 1 .. Len(dayLog) |-> Reentered(i - 1)])

\* the returns scheduled for the days from a day on
Pending(day) ==
  Sum([i \in 1 .. Len(futureAdds) |-> IF i - 1 >= day THEN futureAdds[i] ELSE 0])

\* C25: person conservation over the whole run: at the end of every day the
\* entries ever appended are the removals (attended or not) plus the queue, the
\* rebookings made so far are the re-entries already appended plus the returns
\* scheduled for days not yet processed, and once the run has returned every
\* rebooking for a simulated day has re-entered.
C25_PersonConservation ==
  /\ (pc = "day" \/ pc = "done") =>
       /\ Appended = Len(serviceLog) + Len(queue)
       /\ Rebookings = Returned + Pending(d)
  /\ pc = "done" =>
       \A k \in 1 .. Len(serviceLog) :
         (serviceLog[k].outcome = "rebooked" /\ serviceLog[k].returnDay < params.days)
           => Reentered(serviceLog[k].returnDay) >= 1

\* the bin a value belongs to among bins many
BinOf(x, binSize, bins) == Min(x \div binSize, bins - 1)

\* C28: histogram binning: for a non-empty array of non-negative integer waits
\* buildHistogram(data, binSize, maxBins) returns at most maxBins bins, every
\* value is counted exactly once, in a bin of the returned array (the counts add
\* up to data.length), and a value beyond the max bin edge is counted in the
\* last bin.
C28_HistogramBins ==
  (fn = "buildHistogram" /\ returned /\ Len(args[1]) > 0) =>
     LET data == args[1]
         binSize == args[2]
         maxBins == args[3]
         counts == value.counts
     IN  /\ Len(counts) <= maxBins
         /\ Len(value.labels) = Len(counts)
         /\ \A i \in 1 .. Len(counts) :
              counts[i] = Num(Cardinality({k \in 1 .. Len(data) :
                              BinOf(data[k], binSize, Len(counts)) = i - 1}))
         /\ Sum([i \in 1 .. Len(counts) |-> counts[i].v]) = Len(data)

\* the instances on a canvas that have not been destroyed
Live(canvas) ==
  {i \in 1 .. Len(charts) : charts[i].canvas = canvas /\ ~charts[i].destroyed}

\* the instance a handle caches, as a set
Cached(handle) == IF handle = 0 THEN {} ELSE {handle}

\* C26: chart handle replacement: after any sequence of run / applyScenario
\* events every instance created before the cached one has been destroyed, so
\* each canvas has at most one live instance and the cached handle refers to
\* it.
C26_OneLiveChart ==
  /\ Cardinality(Live("queueChart")) <= 1
  /\ Cardinality(Live("waitChart")) <= 1
  /\ Live("queueChart") = Cached(queueChart)
  /\ Live("waitChart") = Cached(waitChart)
  /\ Len(charts) > 0 => (queueChart = Len(charts) - 1 /\ waitChart = Len(charts))

\* C26 witness: the charts have been rendered three times, by run and by
\* applyScenario, and the two instances of each earlier rendering are destroyed.
C26_Witness ==
  /\ Len(charts) = 6 /\ queueChart = 5 /\ waitChart = 6
  /\ \A i \in 1 .. 4 : charts[i].destroyed
  /\ params \notin PageInputs

\* C27: comparison export state: after any sequence of run, runAllComparisons
\* and export events, lastComparisonRows is non-null and the export button is
\* enabled exactly when the most recent simulation action was
\* runAllComparisons; a single run clears the rows and disables the button; and
\* the export starts no download when lastComparisonRows is null or empty.
C27_ExportState ==
  [][/\ lastAction' # "none" =>
          /\ (lastComparisonRows'.kind = "array" /\ ~exportDisabled')
               <=> lastAction' = "runAllComparisons"
          /\ lastAction' = "run" =>
               (lastComparisonRows' = NoRows /\ exportDisabled')
     /\ (lastComparisonRows.kind = "null" \/ Len(lastComparisonRows.rows) = 0)
          => downloads' = downloads]_vars
====
